---- MODULE Spec2Model ----
(***************************************************************************)
(* Breakout (script.js): the game loop, the input handlers, the ball and   *)
(* paddle physics, the brick collision resolver and the level / life       *)
(* state machine.                                                          *)
(*                                                                         *)
(* Lengths and velocities are fixed-point numbers: one unit is 1/Scale of  *)
(* a pixel, so the 0.1 px offsets of checkBrickCollisions and the 0.6 and  *)
(* 0.5 steps of startRound are exact.  The one computation that leaves     *)
(* this grid, the rebound 4 * hitPos of a paddle hit, is rounded to the    *)
(* nearest unit.                                                           *)
(*                                                                         *)
(* The canvas element lives in game.html, which is not among the sources:  *)
(* its width and height are parameters of the model (CanvasWidth0,         *)
(* CanvasHeight).  The level generators are modelled as written; the row   *)
(* and column counts they are called with (brick.cols and the arguments in *)
(* `levels`) are scaled down so that whole games can be explored: one      *)
(* brick, one brick, and a 2 x 2 rectangle whose lower row reaches down to *)
(* the docked ball, as the lowest row of the 6 x 11 rectangle does on a    *)
(* 400 pixel high canvas.                                                  *)
(*                                                                         *)
(* Exploration bounds: a flight is followed for MaxFrames frames, and the  *)
(* player steers (keys, pointer) between rallies only; what the keys latch *)
(* (paddle.dx) keeps moving the paddle during the flight.                  *)
(*                                                                         *)
(* requestAnimationFrame is the counter `pending`: loop adds a callback to *)
(* the browser's queue, a tick takes one off and runs it.                  *)
(*                                                                         *)
(* localStorage is the pair storedHighScore / storageOk: the value under   *)
(* the key breakout_high_score and whether setItem succeeds.  Spec follows *)
(* whole games with a working store.  SpecUnit follows single contacts     *)
(* instead: a session starts at any level (the last one a 3 x 3 rectangle, *)
(* which has a pre-cleared interior brick), with a working or a failing    *)
(* store, serves with every draw of Math.random(), and follows a ball in   *)
(* flight from the positions next to each brick and next to the paddle.    *)
(* SpecCarry follows the same contacts in sessions that reach a level with *)
(* lives already lost.                                                     *)
(***************************************************************************)
EXTENDS Integers, Sequences, FiniteSets, TLC

\* ------------------------------------------------------------------ units
\* One pixel is Scale units (0.1 px is one unit).
Scale == 10

Px(n) == n * Scale

\* ------------------------------------------------------- model parameters
\* <canvas id="game"> attributes (game.html), in pixels.
CanvasWidth0 == 120
CanvasHeight == 200

\* the canvas element as the script finds it (document.getElementById("game"))
canvas == [width |-> Px(CanvasWidth0), height |-> Px(CanvasHeight)]

\* A flight is followed for at most MaxFrames animation frames after the serve.
MaxFrames == 32

\* ------------------------------------------------------ program constants
\* const brick: cols is 9 in the source
brick == [cols |-> 1, width |-> 80, height |-> 40, padding |-> 10, offsetTop |-> 40]

PaddleWidth0 == 100
PaddleHeight == 20
PaddleSpeed == 5
PaddleBottomGap == 25
BallRadius == 8
BallDockGap == 2
BallDx0 == 2
BallDy0 == 2
NumLevels == 3
StartLives == 3
BrickScore == 10
MinPaddleWidth == 70
PaddleShrink == 10
Eps == 1
HitGain == 4
LeftRightMargin == 40
PadX == 10
PadY == 10
TopMargin == 80
MinBrickWidth == 40

Max(a, b) == IF a >= b THEN a ELSE b
Min(a, b) == IF a <= b THEN a ELSE b

\* canvas.height never changes; paddle.y is computed once from it.
CanvasH == canvas.height
PaddleY == CanvasH - Px(PaddleBottomGap)
R == Px(BallRadius)
DockY == PaddleY - R - Px(BallDockGap)

\* ---------------------------------------------------------------- state
VARIABLES
  score,            \* let score
  lives,            \* let lives
  running,          \* let running
  gameOver,         \* let gameOver
  youWin,           \* let youWin
  animId,           \* let animId: TRUE iff it holds a request id (not null)
  pending,          \* environment: callbacks of loop queued by requestAnimationFrame
  currentLevel,     \* let currentLevel
  bricks,           \* let bricks: rows of [x, y, width, height, status]
  remainingBricks,  \* let remainingBricks
  paddle,           \* paddle.x, paddle.width, paddle.dx
  ball,             \* ball.x, ball.y, ball.dx, ball.dy
  canvasWidth,      \* canvas.width
  highScore,        \* let highScore
  storedHighScore,  \* localStorage item 'breakout_high_score'
  storageOk,        \* environment: localStorage.setItem succeeds (does not throw)
  frames,           \* history: frames run since the ball was served
  ev                \* history: what the most recent loop() or resetGame() did

vars == <<score, lives, running, gameOver, youWin, animId, pending, currentLevel, bricks,
          remainingBricks, paddle, ball, canvasWidth, highScore, storedHighScore,
          storageOk, frames, ev>>

\* The program state as one record, the form the handlers below work on.
State ==
  [score |-> score, lives |-> lives, running |-> running, gameOver |-> gameOver,
   youWin |-> youWin, animId |-> animId, pending |-> pending,
   currentLevel |-> currentLevel,
   bricks |-> bricks, remainingBricks |-> remainingBricks, paddle |-> paddle,
   ball |-> ball, canvasWidth |-> canvasWidth, highScore |-> highScore,
   storedHighScore |-> storedHighScore, storageOk |-> storageOk]

Is(t) ==
  /\ score = t.score
  /\ lives = t.lives
  /\ running = t.running
  /\ gameOver = t.gameOver
  /\ youWin = t.youWin
  /\ animId = t.animId
  /\ pending = t.pending
  /\ currentLevel = t.currentLevel
  /\ bricks = t.bricks
  /\ remainingBricks = t.remainingBricks
  /\ paddle = t.paddle
  /\ ball = t.ball
  /\ canvasWidth = t.canvasWidth
  /\ highScore = t.highScore
  /\ storedHighScore = t.storedHighScore
  /\ storageOk = t.storageOk

Becomes(t) ==
  /\ score' = t.score
  /\ lives' = t.lives
  /\ running' = t.running
  /\ gameOver' = t.gameOver
  /\ youWin' = t.youWin
  /\ animId' = t.animId
  /\ pending' = t.pending
  /\ currentLevel' = t.currentLevel
  /\ bricks' = t.bricks
  /\ remainingBricks' = t.remainingBricks
  /\ paddle' = t.paddle
  /\ ball' = t.ball
  /\ canvasWidth' = t.canvasWidth
  /\ highScore' = t.highScore
  /\ storedHighScore' = t.storedHighScore
  /\ storageOk' = t.storageOk

\* --------------------------------------------------------- level layouts
NewBrick(x, y, alive) ==
  [x |-> x, y |-> y, width |-> Px(brick.width), height |-> Px(brick.height),
   status |-> IF alive THEN 1 ELSE 0]

\* x of column c and y of row r (both 0-based) of a centered row of `cols` bricks
GenX(cw, cols, c) ==
  LET rowWidth == cols * Px(brick.width) + (cols - 1) * Px(brick.padding)
      startX == (cw - rowWidth) \div 2
  IN  startX + c * (Px(brick.width) + Px(brick.padding))

GenY(r) == Px(brick.offsetTop) + r * (Px(brick.height) + Px(brick.padding))

generateReversePyramidBricks(cw) ==
  LET maxCols == IF brick.cols % 2 = 1 THEN brick.cols ELSE brick.cols - 1
      rows == (maxCols + 1) \div 2
  IN  [row \in 1..rows |->
         LET colsInRow == maxCols - 2 * (row - 1)
         IN  [col \in 1..colsInRow |->
                NewBrick(GenX(cw, colsInRow, col - 1), GenY(row - 1), TRUE)]]

generateFullGrid(cw, rows, cols) ==
  [r \in 1..rows |->
     [c \in 1..cols |-> NewBrick(GenX(cw, cols, c - 1), GenY(r - 1), TRUE)]]

generateHollowRect(cw, rows, cols) ==
  [r \in 1..rows |->
     [c \in 1..cols |->
        LET edge == r = 1 \/ c = 1 \/ r = rows \/ c = cols
        IN  NewBrick(GenX(cw, cols, c - 1), GenY(r - 1), edge)]]

\* levels[idx](): generateFullGrid(5, 9) and generateHollowRect(6, 11) in the source
LevelBricks(idx, cw) ==
  CASE idx = 0 -> generateReversePyramidBricks(cw)
    [] idx = 1 -> generateFullGrid(cw, 1, 1)
    [] OTHER   -> generateHollowRect(cw, 2, 2)

RECURSIVE SumSeq(_)
SumSeq(q) == IF q = <<>> THEN 0 ELSE Head(q) + SumSeq(Tail(q))

RECURSIVE MaxSeq(_)
MaxSeq(q) == IF q = <<>> THEN 0 ELSE Max(Head(q), MaxSeq(Tail(q)))

\* the count without the status filter: every slot of the grid
AliveCountAll(bs) == SumSeq([r \in 1..Len(bs) |-> Len(bs[r])])

\* bricks.reduce((sum, row) => sum + row.filter(b => b.status).length, 0)
AliveCount(bs) ==
  SumSeq([r \in 1..Len(bs) |->
            Cardinality({c \in 1..Len(bs[r]) : bs[r][c].status # 0})])

\* the layout pass writing a fresh brick (status 1) into every slot
normalizeAndFitBricksRevive(s) ==
  IF Len(s.bricks) = 0 THEN s
  ELSE
    LET maxCols == MaxSeq([r \in 1..Len(s.bricks) |-> Len(s.bricks[r])])
        requiredWidth == Px(LeftRightMargin) + maxCols * Px(MinBrickWidth)
                           + (maxCols - 1) * Px(PadX) + Px(LeftRightMargin)
        grow == requiredWidth > s.canvasWidth
        cw == IF grow THEN requiredWidth ELSE s.canvasWidth
        px == IF grow THEN Min(s.paddle.x, cw - s.paddle.width) ELSE s.paddle.x
        availableWidth == cw - Px(LeftRightMargin) * 2
        w == ((availableWidth - Px(PadX) * (maxCols - 1)) \div (maxCols * Scale)) * Scale
        h == Px(brick.height)
        fit == [r \in 1..Len(s.bricks) |->
                  LET cols == Len(s.bricks[r])
                      rowWidth == cols * w + (cols - 1) * Px(PadX)
                      startX == (cw - rowWidth) \div 2
                  IN  [c \in 1..cols |->
                         [x |-> startX + (c - 1) * (w + Px(PadX)),
                          y |-> Px(TopMargin) + (r - 1) * (h + Px(PadY)),
                          width |-> w, height |-> h, status |-> 1]]]
    IN  [s EXCEPT !.canvasWidth = cw, !.paddle.x = px, !.bricks = fit]

normalizeAndFitBricks(s) ==
  IF Len(s.bricks) = 0 THEN s
  ELSE
    LET maxCols == MaxSeq([r \in 1..Len(s.bricks) |-> Len(s.bricks[r])])
        requiredWidth == Px(LeftRightMargin) + maxCols * Px(MinBrickWidth)
                           + (maxCols - 1) * Px(PadX) + Px(LeftRightMargin)
        grow == requiredWidth > s.canvasWidth
        cw == IF grow THEN requiredWidth ELSE s.canvasWidth
        px == IF grow THEN Min(s.paddle.x, cw - s.paddle.width) ELSE s.paddle.x
        availableWidth == cw - Px(LeftRightMargin) * 2
        \* Math.floor(... / maxCols), in whole pixels
        w == ((availableWidth - Px(PadX) * (maxCols - 1)) \div (maxCols * Scale)) * Scale
        h == Px(brick.height)
        fit == [r \in 1..Len(s.bricks) |->
                  LET cols == Len(s.bricks[r])
                      rowWidth == cols * w + (cols - 1) * Px(PadX)
                      startX == (cw - rowWidth) \div 2
                  IN  [c \in 1..cols |->
                         [s.bricks[r][c] EXCEPT
                            !.x = startX + (c - 1) * (w + Px(PadX)),
                            !.y = Px(TopMargin) + (r - 1) * (h + Px(PadY)),
                            !.width = w,
                            !.height = h]]]
    IN  [s EXCEPT !.canvasWidth = cw, !.paddle.x = px, !.bricks = fit]

\* the body of setLevel without the difficulty tweak: the width is left alone
LoadLevelNoShrink(s, idx, bs) ==
  LET s1 == [s EXCEPT !.currentLevel = idx,
                      !.bricks = bs,
                      !.remainingBricks = AliveCount(bs)]
  IN  normalizeAndFitBricks(s1)

\* the body of setLevel, bs the brick set the level's generator returned
LoadLevel(s, idx, bs) ==
  LET s1 == [s EXCEPT !.currentLevel = idx,
                      !.bricks = bs,
                      !.remainingBricks = AliveCount(bs),
                      !.paddle.width =
                         Max(Px(MinPaddleWidth), Px(PaddleWidth0) - idx * Px(PaddleShrink))]
  IN  normalizeAndFitBricks(s1)

\* setLevel(idx)
setLevel(s, idx) == LoadLevel(s, idx, LevelBricks(idx % NumLevels, s.canvasWidth))


\* ------------------------------------------------------ paddle and ball
\* n / d rounded to the nearest integer (d > 0)
RoundDiv(n, d) == (2 * n + d) \div (2 * d)

\* paddle.update() without the right-hand clamp
PaddleUpdateNoRightClamp(s) ==
  LET x1 == s.paddle.x + s.paddle.dx
  IN  [s EXCEPT !.paddle.x = IF x1 < 0 THEN 0 ELSE x1]

\* paddle.update()
PaddleUpdate(s) ==
  LET x1 == s.paddle.x + s.paddle.dx
      x2 == IF x1 < 0 THEN 0 ELSE x1
      x3 == IF x2 + s.paddle.width > s.canvasWidth
              THEN s.canvasWidth - s.paddle.width ELSE x2
  IN  [s EXCEPT !.paddle.x = x3]

\* resetBall()
resetBall(s) ==
  [s EXCEPT !.ball = [x |-> s.paddle.x + s.paddle.width \div 2,
                      y |-> DockY, dx |-> 0, dy |-> 0]]

\* the first part of ball.update without the side-wall reflection
BallMovedNoSideWall(s) ==
  LET x1 == s.ball.x + s.ball.dx
      y1 == s.ball.y + s.ball.dy
      dy1 == IF y1 - R < 0 THEN -s.ball.dy ELSE s.ball.dy
  IN  [x |-> x1, y |-> y1, dx |-> s.ball.dx, dy |-> dy1]

\* the ball after `x += dx; y += dy` and the wall reflections (ball.update, first part)
BallMoved(s) ==
  LET x1 == s.ball.x + s.ball.dx
      y1 == s.ball.y + s.ball.dy
      dx1 == IF x1 - R < 0 \/ x1 + R > s.canvasWidth THEN -s.ball.dx ELSE s.ball.dx
      dy1 == IF y1 - R < 0 THEN -s.ball.dy ELSE s.ball.dy
  IN  [x |-> x1, y |-> y1, dx |-> dx1, dy |-> dy1]

\* the paddle-contact condition without `this.dy > 0`
PaddleHitAnyDy(b, p) ==
  /\ b.y + R >= PaddleY
  /\ b.y - R <= PaddleY + Px(PaddleHeight)
  /\ b.x >= p.x
  /\ b.x <= p.x + p.width

\* the paddle-contact condition of ball.update
PaddleHit(b, p) ==
  /\ b.y + R >= PaddleY
  /\ b.y - R <= PaddleY + Px(PaddleHeight)
  /\ b.x >= p.x
  /\ b.x <= p.x + p.width
  /\ b.dy > 0

\* dx = 4 * hitPos, hitPos = (x - (paddle.x + width/2)) / (width/2)
ReboundDx(b, p) ==
  RoundDiv(HitGain * Scale * (2 * (b.x - p.x) - p.width), p.width)

BallBounced(s) ==
  LET b == BallMoved(s)
  IN  IF PaddleHit(b, s.paddle)
        THEN [b EXCEPT !.dy = -b.dy, !.dx = ReboundDx(b, s.paddle)]
        ELSE b

\* the bottom-out condition of ball.update
BottomOut(b) == b.y - R > CanvasH

\* the life-loss branch without the gameOver assignment
LoseLifeNoGameOver(s) ==
  resetBall([s EXCEPT !.lives = Max(0, s.lives - 1), !.running = FALSE])

\* the life-loss branch taking two lives
LoseTwoLives(s) ==
  LET n == Max(0, s.lives - 2)
      s1 == resetBall([s EXCEPT !.lives = n, !.running = FALSE])
  IN  IF n = 0 THEN [s1 EXCEPT !.gameOver = TRUE] ELSE s1

\* the life-loss branch with resetBall() only when a life is left
LoseLifeNoRedock(s) ==
  LET n == Max(0, s.lives - 1)
      s1 == [s EXCEPT !.lives = n, !.running = FALSE]
  IN  IF n = 0 THEN [s1 EXCEPT !.gameOver = TRUE] ELSE resetBall(s1)

\* the life-loss branch of ball.update
LoseLife(s) ==
  LET n == Max(0, s.lives - 1)
      s1 == resetBall([s EXCEPT !.lives = n, !.running = FALSE])
  IN  IF n = 0 THEN [s1 EXCEPT !.gameOver = TRUE] ELSE s1

\* ball.update()
BallUpdate(s) ==
  LET s1 == [s EXCEPT !.ball = BallBounced(s)]
  IN  IF BottomOut(s1.ball) THEN LoseLife(s1) ELSE s1

\* ------------------------------------------------------ brick collisions
\* the circle-rect overlap test of checkBrickCollisions
Overlaps(b, k) ==
  /\ b.x + R > k.x
  /\ b.x - R < k.x + k.width
  /\ b.y + R > k.y
  /\ b.y - R < k.y + k.height

\* the scan without `if (!b.status) continue`
HitsAnyStatus(s) ==
  {rc \in {<<r, c>> : r \in 1..Len(s.bricks), c \in 1..MaxSeq([i \in 1..Len(s.bricks) |-> Len(s.bricks[i])])} :
     /\ rc[2] <= Len(s.bricks[rc[1]])
     /\ Overlaps(s.ball, s.bricks[rc[1]][rc[2]])}

\* positions <<r, c>> of the alive bricks the ball overlaps
Hits(s) ==
  {rc \in {<<r, c>> : r \in 1..Len(s.bricks), c \in 1..MaxSeq([i \in 1..Len(s.bricks) |-> Len(s.bricks[i])])} :
     /\ rc[2] <= Len(s.bricks[rc[1]])
     /\ s.bricks[rc[1]][rc[2]].status # 0
     /\ Overlaps(s.ball, s.bricks[rc[1]][rc[2]])}

Before(a, b) == a[1] < b[1] \/ (a[1] = b[1] /\ a[2] < b[2])

\* the scan in the opposite order: the overlapping alive brick reached last
FirstHitReversed(s) == CHOOSE rc \in Hits(s) : \A o \in Hits(s) : o = rc \/ Before(o, rc)

\* the brick the nested loops reach first (row-major)
FirstHit(s) == CHOOSE rc \in Hits(s) : \A o \in Hits(s) : o = rc \/ Before(rc, o)

\* side inference and reflection without moving the ball out of the brick
ReflectNoReposition(b, k) ==
  LET prevX == b.x - b.dx
      prevY == b.y - b.dy
      fromLeft == prevX + R <= k.x
      fromRight == prevX - R >= k.x + k.width
      fromTop == prevY + R <= k.y
      fromBottom == prevY - R >= k.y + k.height
      none == ~fromLeft /\ ~fromRight /\ ~fromTop /\ ~fromBottom
      b1 == IF fromLeft \/ fromRight THEN [b EXCEPT !.dx = -b.dx] ELSE b
  IN  IF fromTop \/ fromBottom \/ none THEN [b1 EXCEPT !.dy = -b1.dy] ELSE b1

\* side inference and reflection without the fallback of lines 650-652
ReflectNoFallback(b, k) ==
  LET prevX == b.x - b.dx
      prevY == b.y - b.dy
      fromLeft == prevX + R <= k.x
      fromRight == prevX - R >= k.x + k.width
      fromTop == prevY + R <= k.y
      fromBottom == prevY - R >= k.y + k.height
      b1 == IF fromLeft THEN [b EXCEPT !.dx = -b.dx, !.x = k.x - R - Eps]
            ELSE IF fromRight THEN [b EXCEPT !.dx = -b.dx, !.x = k.x + k.width + R + Eps]
            ELSE b
  IN  IF fromTop THEN [b1 EXCEPT !.dy = -b1.dy, !.y = k.y - R - Eps]
      ELSE IF fromBottom
        THEN [b1 EXCEPT !.dy = -b1.dy, !.y = k.y + k.height + R + Eps]
      ELSE b1

\* side inference and reflection for brick k
Reflect(b, k) ==
  LET prevX == b.x - b.dx
      prevY == b.y - b.dy
      fromLeft == prevX + R <= k.x
      fromRight == prevX - R >= k.x + k.width
      fromTop == prevY + R <= k.y
      fromBottom == prevY - R >= k.y + k.height
      none == ~fromLeft /\ ~fromRight /\ ~fromTop /\ ~fromBottom
      b1 == IF fromLeft THEN [b EXCEPT !.dx = -b.dx, !.x = k.x - R - Eps]
            ELSE IF fromRight THEN [b EXCEPT !.dx = -b.dx, !.x = k.x + k.width + R + Eps]
            ELSE b
      b2 == IF fromTop THEN [b1 EXCEPT !.dy = -b1.dy, !.y = k.y - R - Eps]
            ELSE IF fromBottom
              THEN [b1 EXCEPT !.dy = -b1.dy, !.y = k.y + k.height + R + Eps]
            ELSE b1
  IN  IF none THEN [b2 EXCEPT !.dy = -b2.dy] ELSE b2

\* score += 20
AddScoreDouble(s) ==
  LET sc == s.score + 2 * BrickScore
  IN  [s EXCEPT !.score = sc,
                !.highScore = IF sc > s.highScore THEN sc ELSE s.highScore]

\* score += 10 without the high-score update
AddScoreNoHigh(s) == [s EXCEPT !.score = s.score + BrickScore]

\* score += 10 and the high-score update; the write is inside try / catch
AddScore(s) ==
  LET sc == s.score + BrickScore
  IN  IF sc > s.highScore
        THEN [s EXCEPT !.score = sc, !.highScore = sc,
                       !.storedHighScore = IF s.storageOk THEN sc ELSE @]
        ELSE [s EXCEPT !.score = sc]

\* the level-clear branch without the last-level test: the level after the
\* last one wraps around to the first generator
LevelClearedWrap(s) ==
  resetBall(setLevel([s EXCEPT !.running = FALSE], s.currentLevel + 1))

\* the level-clear branch giving the lives back on a level advance
LevelClearedRestoreLives(s) ==
  LET s1 == [s EXCEPT !.running = FALSE]
  IN  IF s1.currentLevel < NumLevels - 1
        THEN resetBall(setLevel([s1 EXCEPT !.lives = StartLives], s1.currentLevel + 1))
        ELSE [s1 EXCEPT !.youWin = TRUE]

\* the level-clear branch without resetBall()
LevelClearedNoDock(s) ==
  LET s1 == [s EXCEPT !.running = FALSE]
  IN  IF s1.currentLevel < NumLevels - 1
        THEN setLevel(s1, s1.currentLevel + 1)
        ELSE [s1 EXCEPT !.youWin = TRUE]

\* remainingBricks === 0 branch: next level or win
LevelCleared(s) ==
  LET s1 == [s EXCEPT !.running = FALSE]
  IN  IF s1.currentLevel < NumLevels - 1
        THEN resetBall(setLevel(s1, s1.currentLevel + 1))
        ELSE [s1 EXCEPT !.youWin = TRUE]

\* the hit body with the write outside try / catch: a throwing setItem ends
\* checkBrickCollisions before the remainingBricks update
StrikeBrickUncaught(s, rc) ==
  LET k == s.bricks[rc[1]][rc[2]]
      s1 == [s EXCEPT !.ball = Reflect(s.ball, k),
                      !.bricks[rc[1]][rc[2]].status = 0]
      s2 == AddScore(s1)
  IN  IF s2.highScore # s.highScore /\ ~s.storageOk
        THEN s2
        ELSE [s2 EXCEPT !.remainingBricks = Max(0, s2.remainingBricks - 1)]

\* the body run for the first alive overlapping brick, up to the remainingBricks
\* update: reflect the ball, clear the brick, score
StrikeBrick(s, rc) ==
  LET k == s.bricks[rc[1]][rc[2]]
      s1 == [s EXCEPT !.ball = Reflect(s.ball, k),
                      !.bricks[rc[1]][rc[2]].status = 0]
      s2 == AddScore(s1)
  IN  [s2 EXCEPT !.remainingBricks = Max(0, s2.remainingBricks - 1)]

\* the nested loops without the `return`: a second overlapping brick is struck too
StruckAll(s) ==
  IF Hits(s) = {} THEN s
  ELSE LET s1 == StrikeBrick(s, FirstHit(s))
           rest == Hits(s) \ {FirstHit(s)}
       IN  IF rest = {} THEN s1 ELSE StrikeBrick(s1, CHOOSE rc \in rest : TRUE)

\* the nested loops: the first alive overlapping brick is struck, then `return`
Struck(s) == IF Hits(s) = {} THEN s ELSE StrikeBrick(s, FirstHit(s))

\* checkBrickCollisions()
checkBrickCollisions(s) ==
  LET s1 == Struck(s)
  IN  IF Hits(s) # {} /\ s1.remainingBricks = 0 THEN LevelCleared(s1) ELSE s1

\* --------------------------------------------------------------- the loop
\* the not-running branch of update(): keep the ball stuck to the paddle
DockBall(s) ==
  [s EXCEPT !.ball.x = s.paddle.x + s.paddle.width \div 2, !.ball.y = DockY]

\* update()
update(s) ==
  LET s1 == PaddleUpdate(s)
  IN  IF s1.running THEN checkBrickCollisions(BallUpdate(s1)) ELSE DockBall(s1)

\* loop(): update, draw, then reschedule unless the game has ended
loop(s) ==
  LET s1 == update(s)
  IN  IF s1.gameOver \/ s1.youWin
        THEN [s1 EXCEPT !.animId = FALSE]
        ELSE [s1 EXCEPT !.animId = TRUE, !.pending = @ + 1]

\* resetGame() calling loop() whether or not a callback is pending
resetGameAlwaysLoop(s) ==
  LET s1 == [s EXCEPT !.score = 0, !.lives = StartLives,
                      !.gameOver = FALSE, !.youWin = FALSE]
  IN  loop(resetBall([setLevel(s1, 0) EXCEPT !.running = FALSE]))

\* resetGame() without `lives = 3`
resetGameKeepLives(s) ==
  LET s1 == [s EXCEPT !.score = 0, !.gameOver = FALSE, !.youWin = FALSE]
      s2 == resetBall([setLevel(s1, 0) EXCEPT !.running = FALSE])
  IN  IF ~s2.animId THEN loop(s2) ELSE s2

\* resetGame()
resetGame(s) ==
  LET s1 == [s EXCEPT !.score = 0, !.lives = StartLives,
                      !.gameOver = FALSE, !.youWin = FALSE]
      s2 == resetBall([setLevel(s1, 0) EXCEPT !.running = FALSE])
  IN  IF ~s2.animId THEN loop(s2) ELSE s2

\* startRound() with a serve speed that ignores the level
startRoundFlat(s, u, sign) ==
  LET speed == (5 * Scale) \div 2
  IN  [s EXCEPT !.running = TRUE,
                !.ball.dx = ((u * 2 * Scale) \div 10 + speed) * sign,
                !.ball.dy = -Max(3 * Scale, speed + (5 * Scale) \div 10)]

\* startRound(), with the two Math.random() draws: u in tenths of [0, 1), sign
startRound(s, u, sign) ==
  LET speed == (5 * Scale) \div 2 + Min(3 * Scale, s.currentLevel * ((6 * Scale) \div 10))
  IN  [s EXCEPT !.running = TRUE,
                !.ball.dx = ((u * 2 * Scale) \div 10 + speed) * sign,
                !.ball.dy = -Max(3 * Scale, speed + (5 * Scale) \div 10)]

\* keyDown, Space branch
keySpace(s, u, sign) ==
  IF ~s.running /\ s.lives > 0 /\ ~s.gameOver /\ ~s.youWin
    THEN startRound(s, u, sign) ELSE s

\* canvas click listener
canvasClick(s, u, sign) ==
  IF ~s.running /\ s.lives > 0 THEN startRound(s, u, sign) ELSE s

\* mouseMove, x the canvas-relative pointer position
mouseMove(s, x) ==
  LET x1 == x - s.paddle.width \div 2
      x2 == IF x1 < 0 THEN 0 ELSE x1
      x3 == IF x2 + s.paddle.width > s.canvasWidth
              THEN s.canvasWidth - s.paddle.width ELSE x2
  IN  [s EXCEPT !.paddle.x = x3]

\* ----------------------------------------------------------- environment
\* Math.random() draws for the serve speed, in tenths
ServeDraws == {0}
Signs == {1, -1}
\* pointer positions
FarAway == 1000
MouseXs == {-Px(FarAway), Px(CanvasWidth0) \div 2, Px(FarAway)}
\* localStorage.getItem(HIGH_SCORE_KEY) at load: what an earlier session left
StoredHighScores == {50}

\* the script's variables as their initialisers leave them; hs is the stored
\* high score, ok whether localStorage.setItem works in this session
Boot(hs, ok) ==
  [score |-> 0, lives |-> StartLives, running |-> FALSE,
   gameOver |-> FALSE, youWin |-> FALSE, animId |-> FALSE, pending |-> 0,
   currentLevel |-> 0, bricks |-> <<>>, remainingBricks |-> 0,
   paddle |-> [x |-> (canvas.width - Px(PaddleWidth0)) \div 2,
               width |-> Px(PaddleWidth0), dx |-> 0],
   ball |-> [x |-> canvas.width \div 2, y |-> DockY,
             dx |-> Px(BallDx0), dy |-> -Px(BallDy0)],
   canvasWidth |-> canvas.width, highScore |-> hs,
   storedHighScore |-> hs, storageOk |-> ok]

\* the script's top-level code, up to and including the first loop() call,
\* in a session whose localStorage works
Construct(hs) == loop(setLevel(Boot(hs, TRUE), 0))

\* ---------------------------------------------------------------- history
\* the state tag the renderer shows
Tag(s) ==
  IF s.gameOver THEN "gameover"
  ELSE IF s.youWin THEN "won"
  ELSE IF s.running THEN "running"
  ELSE "docked"

\* positions whose status is alive in brick set a and cleared in brick set b
Cleared(a, b) ==
  {rc \in {<<r, c>> : r \in 1..Len(a), c \in 1..MaxSeq([i \in 1..Len(a) |-> Len(a[i])])} :
     /\ rc[2] <= Len(a[rc[1]])
     /\ a[rc[1]][rc[2]].status # 0
     /\ b[rc[1]][rc[2]].status = 0}

\* what a loop() call starting in s does: did the ball bottom out, how many alive
\* bricks did it overlap when checkBrickCollisions ran, how many of the bricks
\* changed from alive to cleared; total counts those since the last resetGame
LoopEvents(s, op, total) ==
  LET s1 == PaddleUpdate(s)
      s2 == BallUpdate(s1)
      n == IF s1.running THEN Cardinality(Cleared(s2.bricks, Struck(s2).bricks)) ELSE 0
  IN  [op |-> op, from |-> Tag(s),
       bottomOut |-> s1.running /\ BottomOut(BallBounced(s1)),
       overlap |-> IF s1.running THEN Cardinality(Hits(s2)) ELSE 0,
       cleared |-> n,
       total |-> total + n]

Served == running' /\ ~running

\* ---------------------------------------------------------------- actions
Init ==
  /\ \E hs \in StoredHighScores : Is(Construct(hs))
  /\ frames = 0
  /\ ev = [op |-> "init", from |-> "docked", bottomOut |-> FALSE,
           overlap |-> 0, cleared |-> 0, total |-> 0]

\* one animation frame: the pending loop callback runs
Tick ==
  /\ pending > 0
  /\ running => frames < MaxFrames
  /\ Becomes(loop([State EXCEPT !.pending = @ - 1]))
  /\ frames' = IF running /\ running' THEN frames + 1 ELSE 0
  /\ ev' = LoopEvents(State, "tick", ev.total)

KeyDownRight ==
  /\ ~running
  /\ Becomes([State EXCEPT !.paddle.dx = Px(PaddleSpeed)])
  /\ UNCHANGED <<frames, ev>>

KeyDownLeft ==
  /\ ~running
  /\ Becomes([State EXCEPT !.paddle.dx = -Px(PaddleSpeed)])
  /\ UNCHANGED <<frames, ev>>

KeyUp ==
  /\ ~running
  /\ Becomes([State EXCEPT !.paddle.dx = 0])
  /\ UNCHANGED <<frames, ev>>

KeySpace ==
  /\ \E u \in ServeDraws, sign \in Signs : Becomes(keySpace(State, u, sign))
  /\ frames' = IF Served THEN 0 ELSE frames
  /\ UNCHANGED ev

CanvasClick ==
  /\ \E u \in ServeDraws, sign \in Signs : Becomes(canvasClick(State, u, sign))
  /\ frames' = IF Served THEN 0 ELSE frames
  /\ UNCHANGED ev

MouseMove ==
  /\ ~running
  /\ \E x \in MouseXs : Becomes(mouseMove(State, x))
  /\ UNCHANGED <<frames, ev>>

\* startBtn click listener: hideMenu(); resetGame()
StartBtnClick ==
  /\ Becomes(resetGame(State))
  /\ frames' = 0
  /\ ev' = [op |-> "reset", from |-> Tag(State), bottomOut |-> FALSE,
            overlap |-> 0, cleared |-> 0, total |-> 0]

Next ==
  \/ Tick
  \/ KeyDownRight
  \/ KeyDownLeft
  \/ KeyUp
  \/ KeySpace
  \/ CanvasClick
  \/ MouseMove
  \/ StartBtnClick

Spec == Init /\ [][Next]_vars

\* ------------------------------------------------- contact-level sessions
\* A second specification follows single contacts instead of whole flights:
\* the session starts at any level, the last one with a hollow rectangle that
\* has an interior (3 x 3), localStorage works or throws, the serve uses every
\* draw, and the flight between two contacts is replaced by placing the ball
\* next to a brick or next to the paddle.
UnitFrames == 1
UnitDraws == 0..9
UnitHighScores == {20}

UnitLevelBricks(idx, cw) ==
  IF idx = NumLevels - 1 THEN generateHollowRect(cw, 3, 3) ELSE LevelBricks(idx, cw)

\* the session at the start of level idx: one brick cleared on each level before
ConstructUnit(idx, hs, ok) ==
  loop(LoadLevel([Boot(hs, ok) EXCEPT !.score = BrickScore * idx], idx,
                 UnitLevelBricks(idx, canvas.width)))

\* the ball about to touch brick k from below, from the left, or at its upper
\* right corner on the way down, or inside it
BrickSpots(k) ==
  LET cx == k.x + k.width \div 2
      cy == k.y + k.height \div 2
  IN  { [x |-> cx, y |-> k.y + k.height + R + 10, dx |-> 0, dy |-> -30],
        [x |-> k.x - R - 10, y |-> cy, dx |-> 30, dy |-> -30],
        [x |-> k.x + k.width + R + 10, y |-> k.y - R - 10, dx |-> -30, dy |-> 30],
        [x |-> cx, y |-> cy, dx |-> 0, dy |-> -30] }

\* the ball about to reach the paddle's top: at its edges, its centre, just
\* beside it, and passing its top on the way up
PaddleSpots(p) ==
  { [x |-> p.x + o, y |-> PaddleY - R - 20, dx |-> 0, dy |-> 30] :
      o \in {-1, 0, p.width \div 4, p.width \div 2, p.width, p.width + 1} }
  \cup { [x |-> p.x + p.width \div 2, y |-> PaddleY - R + 40, dx |-> 0, dy |-> -30] }

BallSpots(s) ==
  UNION { BrickSpots(s.bricks[r][c]) : r \in 1..Len(s.bricks), c \in 1..Len(s.bricks[1]) }
    \cup PaddleSpots(s.paddle)

InitUnit ==
  /\ \E idx \in 0..(NumLevels - 1), hs \in UnitHighScores, ok \in BOOLEAN :
       /\ Is(ConstructUnit(idx, hs, ok))
       /\ ev = [op |-> "init", from |-> "docked", bottomOut |-> FALSE,
                overlap |-> 0, cleared |-> 0, total |-> idx]
  /\ frames = 0

\* an animation frame, the flight followed for UnitFrames frames
UnitTick ==
  /\ running => frames < UnitFrames
  /\ Tick

\* Space, with every draw of Math.random()
UnitServe ==
  /\ ~running
  /\ \E u \in UnitDraws, sign \in Signs : Becomes(keySpace(State, u, sign))
  /\ frames' = IF Served THEN 0 ELSE frames
  /\ UNCHANGED ev

\* the flight has brought the ball next to a brick or to the paddle (one
\* placement per flight leg: a placed ball is followed, not placed again)
UnitPlace ==
  /\ running
  /\ ev.op # "place"
  /\ \E b \in BallSpots(State) : Becomes([State EXCEPT !.ball = b])
  /\ frames' = 0
  /\ ev' = [op |-> "place", from |-> "running", bottomOut |-> FALSE,
            overlap |-> 0, cleared |-> 0, total |-> ev.total]

NextUnit ==
  \/ UnitTick
  \/ UnitServe
  \/ UnitPlace

SpecUnit == InitUnit /\ [][NextUnit]_vars

\* --------------------------------------------------- carried-over totals
\* A third specification follows the same contacts in sessions that reach a
\* level below the last one with any number of lives left and a stored high
\* score below or above the score: what a level advance carries over.
CarryLives == 1..StartLives
CarryHighScores == {0, 20}

InitCarry ==
  /\ \E idx \in 0..(NumLevels - 2), l \in CarryLives, hs \in CarryHighScores :
       /\ Is([ConstructUnit(idx, hs, TRUE) EXCEPT !.lives = l])
       /\ ev = [op |-> "init", from |-> "docked", bottomOut |-> FALSE,
                overlap |-> 0, cleared |-> 0, total |-> idx]
  /\ frames = 0

SpecCarry == InitCarry /\ [][NextUnit]_vars

\* ================================================================ claims
\* the ball as resetBall() leaves it on paddle p
Docked(b, p) ==
  b = [x |-> p.x + p.width \div 2, y |-> DockY, dx |-> 0, dy |-> 0]

\* the statuses of a brick set
Statuses(bs) == [r \in 1..Len(bs) |-> [c \in 1..Len(bs[r]) |-> bs[r][c].status]]

AllAlive(bs) == \A r \in 1..Len(bs) : \A c \in 1..Len(bs[r]) : bs[r][c].status = 1

BrickTotal(bs) == SumSeq([r \in 1..Len(bs) |-> Len(bs[r])])

\* the state in the middle of a running tick, after ball.update()
AfterBallUpdate == BallUpdate(PaddleUpdate(State))

\* the ball bottoms out in the tick that starts in this state
BottomsOut == running /\ BottomOut(BallBounced(PaddleUpdate(State)))

\* the tick that starts in this state takes remainingBricks to 0
ClearsLevel ==
  /\ running
  /\ remainingBricks <= 1
  /\ Hits(AfterBallUpdate) # {}
  /\ Struck(AfterBallUpdate).remainingBricks = 0

\* C1: a bottom-out with one life left ends the game in that same tick (lives 0,
\* gameOver set, running cleared), and from a game-over state no tick and no
\* input sets running again.
C1_LastLifeEndsGame ==
  [][/\ (lives = 1 /\ BottomsOut /\ Tick) => (lives' = 0 /\ gameOver' /\ ~running')
     /\ gameOver => ~running']_vars

C1_Witness ==
  ev.op = "tick" /\ ev.bottomOut /\ lives = 0 /\ gameOver /\ ~running

\* C2: the tick that takes remainingBricks to 0 advances the level below the last
\* level (level + 1, fresh bricks, remainingBricks their alive count, not
\* running, ball docked with zero velocity, youWin still false) and wins on the
\* last level (youWin, not running, level and brick set kept).
C2_LevelClearAdvancesOrWins ==
  [][(ClearsLevel /\ Tick) =>
       IF currentLevel < NumLevels - 1
         THEN /\ currentLevel' = currentLevel + 1
              /\ bricks' = setLevel(State, currentLevel + 1).bricks
              /\ Statuses(bricks') # Statuses(Struck(AfterBallUpdate).bricks)
              /\ remainingBricks' = AliveCount(bricks')
              /\ remainingBricks' > 0
              /\ ~running'
              /\ Docked(ball', paddle')
              /\ ~youWin'
         ELSE /\ youWin'
              /\ ~running'
              /\ currentLevel' = currentLevel
              /\ bricks' = Struck(AfterBallUpdate).bricks
              /\ AliveCount(bricks') = 0]_vars

C2_Witness ==
  /\ ev.op = "tick" /\ ev.cleared = 1
  /\ currentLevel = NumLevels - 1 /\ remainingBricks = AliveCount(bricks)
  /\ score = 20 /\ ~running /\ Docked(ball, paddle)

\* C3: gameOver and youWin are never both true.
C3_TerminalFlagsExclusive == ~(gameOver /\ youWin)

\* C4: once gameOver or youWin is set, score, lives, currentLevel,
\* remainingBricks, the brick statuses and both flags keep their values: in the
\* rest of the tick that set the flag, and in every later step but resetGame.
C4_TerminalStateFrozen ==
  [][/\ (Tick /\ running /\ AfterBallUpdate.gameOver) =>
          /\ score' = AfterBallUpdate.score
          /\ lives' = AfterBallUpdate.lives
          /\ currentLevel' = AfterBallUpdate.currentLevel
          /\ remainingBricks' = AfterBallUpdate.remainingBricks
          /\ Statuses(bricks') = Statuses(AfterBallUpdate.bricks)
          /\ gameOver' /\ youWin' = AfterBallUpdate.youWin
     /\ ((gameOver \/ youWin) /\ ~StartBtnClick) =>
          /\ UNCHANGED <<score, lives, currentLevel, remainingBricks, gameOver, youWin>>
          /\ Statuses(bricks') = Statuses(bricks)]_vars

\* C5: a serve request (Space or canvas click) while running, after game over
\* or after a win leaves running and the ball's velocity unchanged.
C5_ServeOnlyWhenDocked ==
  [][((KeySpace \/ CanvasClick) /\ (running \/ gameOver \/ youWin)) =>
       (running' = running /\ ball'.dx = ball.dx /\ ball'.dy = ball.dy)]_vars

\* C6: resetGame from any state yields score 0, lives 3, level 0, both flags
\* false, not running, the level-0 brick set all alive with remainingBricks its
\* size, and the ball docked with zero velocity.
C6_ResetGameRestoresStart ==
  [][\/ ev'.op # "reset"   \* only resetGame records "reset"
     \/ /\ score' = 0 /\ lives' = 3 /\ currentLevel' = 0
        /\ ~gameOver' /\ ~youWin' /\ ~running'
        /\ Statuses(bricks') = Statuses(generateReversePyramidBricks(canvasWidth'))
        /\ AllAlive(bricks')
        /\ remainingBricks' = BrickTotal(bricks')
        /\ Docked(ball', paddle')
     \/ ~StartBtnClick]_vars

C6_Witness ==
  ev.op = "reset" /\ ev.from = "won" /\ score = 0 /\ lives = 3 /\ currentLevel = 0

\* C7: in one tick at most one brick goes from alive to cleared and score rises
\* by at most 10, also when the ball overlaps several alive bricks.
C7_OneBrickPerTick ==
  [][(ev'.cleared <= 1 /\ score' <= score + 10) \/ ~Tick]_vars

C7_Witness ==
  ev.op = "tick" /\ ev.overlap >= 2 /\ ev.cleared = 1

\* C8: score is 10 times the number of bricks cleared since the last reset.
C8_ScoreCountsBricks == score = 10 * ev.total

C8_Witness == ev.total >= 3 /\ score = 10 * ev.total /\ ev.from = "running"

\* C9: lives stays in 0..3 and changes only by -1 on a bottom-out or to 3 on
\* resetGame.
C9_LivesOnlyDropByOne ==
  [][/\ lives \in 0..3 /\ lives' \in 0..3
     /\ lives' # lives =>
          \/ Tick /\ BottomsOut /\ lives' = lives - 1
          \/ StartBtnClick /\ lives' = 3]_vars

C9_Witness == ev.op = "tick" /\ ev.bottomOut /\ lives = 1 /\ ~gameOver

\* C10: at the end of every tick the paddle lies inside the canvas, whatever the
\* key intents and pointer positions were.
C10_PaddleInsideAfterTick ==
  [][\/ 0 <= paddle'.x /\ paddle'.x <= canvasWidth' - paddle'.width
     \/ ~(Tick \/ (StartBtnClick /\ ~animId))]_vars

C10_Witness ==
  /\ ev.op = "tick" /\ paddle.dx > 0
  /\ paddle.x = canvasWidth - paddle.width

\* the paddle lies inside the canvas
PaddleInside(p, cw) == 0 <= p.x /\ p.x <= cw - p.width

\* C11: in every reachable state the paddle lies inside the canvas, also right
\* after setLevel has changed paddle.width and right after
\* normalizeAndFitBricks has grown the canvas.
C11_PaddleInsideAlways == PaddleInside(paddle, canvasWidth)

\* C13: a cleared brick stays cleared while the brick set is in place (only a
\* level change or resetGame, through setLevel, replaces it), and a tick in
\* which the ball overlaps no alive brick, cleared ones or none, leaves the
\* ball, score and remainingBricks as ball.update left them.
StaysCleared(a, b) ==
  /\ Len(a) = Len(b)
  /\ \A r \in 1..Len(a) :
       /\ Len(a[r]) = Len(b[r])
       /\ \A c \in 1..Len(a[r]) : a[r][c].status = 0 => b[r][c].status = 0

\* positions of the cleared bricks the ball of s overlaps
OverCleared(s) ==
  {rc \in {<<r, c>> : r \in 1..Len(s.bricks), c \in 1..MaxSeq([i \in 1..Len(s.bricks) |-> Len(s.bricks[i])])} :
     /\ rc[2] <= Len(s.bricks[rc[1]])
     /\ s.bricks[rc[1]][rc[2]].status = 0
     /\ Overlaps(s.ball, s.bricks[rc[1]][rc[2]])}

\* alive bricks the ball of s overlaps, by a scan of its own
OverAlive(s) ==
  {rc \in {<<r, c>> : r \in 1..Len(s.bricks), c \in 1..MaxSeq([i \in 1..Len(s.bricks) |-> Len(s.bricks[i])])} :
     /\ rc[2] <= Len(s.bricks[rc[1]])
     /\ s.bricks[rc[1]][rc[2]].status = 1
     /\ Overlaps(s.ball, s.bricks[rc[1]][rc[2]])}

C13_ClearedBrickInert ==
  [][/\ \/ StaysCleared(bricks, bricks')
        \/ currentLevel' # currentLevel
        \/ StartBtnClick
     /\ \/ ~running
        \/ ev'.op # "tick"      \* not a tick
        \/ UNCHANGED vars
        \/ LET a == AfterBallUpdate
           IN  \/ /\ ball' = a.ball
                  /\ score' = a.score
                  /\ remainingBricks' = a.remainingBricks
               \/ OverAlive(a) # {}
        \/ ~Tick]_vars

C13_Witness ==
  /\ ev.op = "tick" /\ ev.from = "running" /\ ev.overlap = 0 /\ running
  /\ OverCleared(State) # {}

\* C14: at the end of every tick that leaves running false the ball rests on
\* the paddle, whatever gameOver and youWin are.
OnPaddle(b, p) == b.x = p.x + p.width \div 2 /\ b.y = DockY

C14_BallOnPaddleWhenNotRunning ==
  [][running' \/ OnPaddle(ball', paddle') \/ ~Tick]_vars

\* C15 as stated: the bottom-out that takes lives to 0 leaves the ball where it
\* fell (not put back on the paddle); a bottom-out that leaves a life docks it.
C15_LastBottomOutKeepsBall ==
  [][~BottomsOut
     \/ (IF lives = 1 THEN ~Docked(ball', paddle') ELSE Docked(ball', paddle'))
     \/ ~Tick]_vars

\* C15, amended: every bottom-out, the one that takes lives to 0 included, ends
\* the tick with the ball on the paddle with zero velocity and running false.
C15_BottomOutAlwaysDocks ==
  [][~BottomsOut \/ (Docked(ball', paddle') /\ ~running') \/ ~Tick]_vars

C15_Witness ==
  /\ ev.op = "tick" /\ ev.bottomOut /\ lives = 0 /\ gameOver
  /\ Docked(ball, paddle)

\* C18: highScore is never below score and never decreases, also across
\* resetGame; a step that raises score above highScore sets highScore to it.
C18_HighScoreDominates ==
  /\ highScore >= score
  /\ [][/\ highScore' >= score'
        /\ highScore' >= highScore
        /\ score' > highScore => highScore' = score']_vars

C18_Witness ==
  ev.op = "reset" /\ ev.from = "won" /\ score = 0 /\ highScore = 60

\* the sign of a velocity component
Sgn(n) == IF n > 0 THEN 1 ELSE IF n < 0 THEN -1 ELSE 0

\* after integration the ball reaches over the left or the right wall
WallCrossing ==
  /\ running
  /\ \/ ball.x + ball.dx - R < 0
     \/ ball.x + ball.dx + R > canvasWidth

\* C16 as stated: a running tick whose ball crosses a side wall ends with dx of
\* the opposite sign, whatever else the ball contacts in that tick.
C16_WallFlipsDxOnce ==
  [][~WallCrossing \/ Sgn(ball'.dx) = -Sgn(ball.dx) \/ ~Tick]_vars

\* positions of the bricks of bs whose status is alive
AlivePositions(bs) ==
  {rc \in {<<r, c>> : r \in 1..Len(bs), c \in 1..MaxSeq([i \in 1..Len(bs) |-> Len(bs[i])])} :
     rc[2] <= Len(bs[rc[1]]) /\ bs[rc[1]][rc[2]].status = 1}

\* C12: remainingBricks is the number of alive bricks of the current brick set
\* (the pre-cleared interior of the hollow rectangle is not counted), so it is
\* 0 exactly when no brick is alive.
C12_RemainingCountsAlive == remainingBricks = Cardinality(AlivePositions(bricks))

C12_Witness ==
  /\ Len(bricks) = 3 /\ bricks[2][2].status = 0
  /\ remainingBricks = 0 /\ AlivePositions(bricks) = {} /\ youWin

\* the ball's vertical span overlaps the paddle's and its centre is over it
Contact(b, p) ==
  /\ b.y + R >= PaddleY
  /\ b.y - R <= PaddleY + Px(PaddleHeight)
  /\ p.x <= b.x /\ b.x <= p.x + p.width

Abs(n) == IF n < 0 THEN -n ELSE n

\* C17: when the ball, after integration and wall reflections, is in contact
\* with the paddle and moves down, the paddle step of ball.update negates dy
\* (the ball leaves upward) and sets dx to 4 * hitPos (to the nearest unit): 0
\* at the centre, -4 at the left edge, +4 at the right edge, never outside
\* [-4, 4]; with dy <= 0, or without contact, the step changes nothing.
C17_PaddleRebound ==
  running =>
    LET s1 == PaddleUpdate(State)
        p == s1.paddle
        b == BallMoved(s1)
        a == BallBounced(s1)
    IN  IF Contact(b, p) /\ b.dy > 0
          THEN /\ a.x = b.x /\ a.y = b.y
               /\ a.dy = -b.dy /\ a.dy < 0
               /\ Abs(a.dx) <= HitGain * Scale
               /\ 2 * Abs(a.dx * p.width
                            - HitGain * Scale * (2 * (b.x - p.x) - p.width)) <= p.width
               /\ 2 * (b.x - p.x) = p.width => a.dx = 0
               /\ b.x = p.x => a.dx = -HitGain * Scale
               /\ b.x = p.x + p.width => a.dx = HitGain * Scale
          ELSE a = b

C17_Witness ==
  /\ ev.op = "tick" /\ ev.from = "running" /\ running
  /\ ball.x = paddle.x /\ ball.dx = -HitGain * Scale /\ ball.dy < 0
  /\ Contact(ball, paddle)

\* the gameplay part of a state: everything but the storage
Gameplay(s) == [s EXCEPT !.storedHighScore = 0, !.storageOk = TRUE]

\* C19: a tick ends in the same gameplay state whether the high-score write
\* succeeds or throws: same brick cleared, score, highScore, remainingBricks,
\* ball, level advance or win.
C19_FailedWriteIsSilent ==
  Gameplay(loop([State EXCEPT !.storageOk = FALSE]))
    = Gameplay(loop([State EXCEPT !.storageOk = TRUE]))

C19_Witness ==
  /\ ev.op = "tick" /\ ev.cleared = 1 /\ ~storageOk
  /\ highScore = score /\ storedHighScore < highScore

\* the serve speed of level l, in units
ServeSpeed(l) == (5 * Scale) \div 2 + Min(3 * Scale, (l * 6 * Scale) \div 10)

\* C20: a serve sets running and gives the ball dy = -max(3, speed + 0.5) and
\* |dx| in [speed, speed + 2), speed = 2.5 + min(3, 0.6 * level): upward with
\* dy <= -3, dx never 0, and vertical speed and least horizontal speed are
\* strictly greater at each higher level.
C20_ServeVelocity ==
  [][~Served
     \/ /\ ball'.dy = -Max(3 * Scale, ServeSpeed(currentLevel) + (5 * Scale) \div 10)
        /\ ball'.dy <= -3 * Scale
        /\ Abs(ball'.dx) >= ServeSpeed(currentLevel)
        /\ Abs(ball'.dx) < ServeSpeed(currentLevel) + 2 * Scale
        /\ ball'.dx # 0
        /\ \A l \in 0..(currentLevel - 1) :
             LET lo == startRound([State EXCEPT !.currentLevel = l], 0, 1).ball
                 hi == startRound([State EXCEPT !.currentLevel = l + 1], 0, 1).ball
             IN  -hi.dy > -lo.dy /\ hi.dx > lo.dx]_vars

C20_Witness ==
  /\ running /\ frames = 0 /\ ev.op # "place" /\ currentLevel = NumLevels - 1
  /\ ball.dx = -(ServeSpeed(currentLevel) + 2 * Scale - 2)

\* a later step of ball.update in the tick that starts in this state writes
\* ball.dx again: a paddle hit (dx = 4 * hitPos) or a bottom-out (resetBall)
DxRewritten ==
  LET s1 == PaddleUpdate(State)
  IN  \/ Contact(BallMoved(s1), s1.paddle) /\ BallMoved(s1).dy > 0
      \/ BottomsOut

\* C16, amended: a running tick whose ball crosses a side wall ends with dx
\* negated, unless the same ball.update also has a paddle hit or a bottom-out.
C16_WallFlipsDxUnlessRewritten ==
  [][~WallCrossing \/ ball'.dx = -ball.dx \/ DxRewritten \/ ~Tick]_vars

C16_Witness ==
  /\ ev.op = "tick" /\ ev.from = "running" /\ running /\ ev.overlap = 0
  /\ ball.x - R < 0 /\ ball.dx > 0

\* the width the difficulty rule gives the paddle at level idx, in pixels
WidthAt(idx) == Max(70, 100 - 10 * idx)

\* C21: the paddle is max(70, 100 - 10 * level) wide in every state and after
\* setLevel(idx) for every level: 100, 90, 80, strictly narrower at each higher
\* level, never below 70; resetGame brings the width back to 100.
C21_PaddleWidthByLevel ==
  /\ paddle.width = Px(WidthAt(currentLevel))
  /\ LET w == [idx \in 0..(NumLevels - 1) |-> setLevel(State, idx).paddle.width]
     IN  /\ w[0] = Px(100) /\ w[1] = Px(90) /\ w[2] = Px(80)
         /\ \A idx \in 0..(NumLevels - 1) :
              /\ w[idx] = Px(WidthAt(idx))
              /\ w[idx] >= Px(70)
              /\ idx > 0 => w[idx] < w[idx - 1]
  /\ [][ev'.op # "reset" \/ UNCHANGED vars \/ paddle'.width = Px(100)
         \/ ~StartBtnClick]_vars

\* the level-clear tick on level 1 has just run setLevel(2)
C21_Witness ==
  /\ ev.op = "tick" /\ ev.cleared = 1 /\ ~running
  /\ currentLevel = 2 /\ paddle.width = Px(80) /\ AllAlive(bricks)

\* the ball's bounding square and brick k's bounds intersect on both axes
Intersects(b, k) ==
  /\ b.x + R > k.x /\ b.x - R < k.x + k.width
  /\ b.y + R > k.y /\ b.y - R < k.y + k.height

\* positions of the alive bricks of s that the ball's bounding square intersects
Candidates(s) ==
  {rc \in AlivePositions(s.bricks) : Intersects(s.ball, s.bricks[rc[1]][rc[2]])}

\* the position of S that comes first by row, then by column
RowMajorFirst(S) ==
  CHOOSE rc \in S : \A o \in S : rc[1] < o[1] \/ (rc[1] = o[1] /\ rc[2] <= o[2])

\* C22: checkBrickCollisions, run on the state ball.update leaves, resolves the
\* row-major first alive brick the ball's bounding square intersects: that
\* brick alone is cleared (cleared bricks before it are skipped, bricks after
\* it are untouched), the ball is reflected off it, 10 points are scored; with
\* no alive brick intersected nothing changes.
C22_FirstAliveOverlapResolved ==
  running =>
    LET a == AfterBallUpdate
        cand == Candidates(a)
    IN  IF cand = {}
          THEN checkBrickCollisions(a) = a
          ELSE LET f == RowMajorFirst(cand)
                   s == Struck(a)
               IN  /\ s.bricks = [a.bricks EXCEPT ![f[1]][f[2]].status = 0]
                   /\ s.ball = Reflect(a.ball, a.bricks[f[1]][f[2]])
                   /\ s.score = a.score + 10
                   /\ s.remainingBricks = a.remainingBricks - 1
                   /\ checkBrickCollisions(a) =
                        IF s.remainingBricks = 0 THEN LevelCleared(s) ELSE s

\* the first strike on the hollow rectangle, by a ball between its interior
\* brick (pre-cleared, earlier in the order) and the brick below it: the
\* cleared one was skipped and the one below was struck
C22_Witness ==
  /\ ev.op = "tick" /\ ev.overlap = 1 /\ ev.cleared = 1
  /\ Len(bricks) = 3 /\ currentLevel = NumLevels - 1
  /\ remainingBricks = Cardinality(AlivePositions(generateHollowRect(canvasWidth, 3, 3))) - 1
  /\ bricks[3][2].status = 0
  /\ Intersects(ball, bricks[2][2]) /\ Intersects(ball, bricks[3][2])

\* the previous position checkBrickCollisions infers from ball b
PrevPos(b) == [x |-> b.x - b.dx, y |-> b.y - b.dy]

\* C23: in every tick that resolves a brick impact, the previous position used
\* for the side inference is where the ball was when the tick started.
C23_PrevIsTickStart ==
  [][\/ ev'.op # "tick"
     \/ ~running
     \/ UNCHANGED vars
     \/ LET a == AfterBallUpdate
        IN  Hits(a) = {} \/ PrevPos(a.ball) = [x |-> ball.x, y |-> ball.y]
     \/ ~Tick]_vars

\* the four side conditions for ball b (after ball.update) and brick k
SideFlags(b, k) ==
  [left   |-> PrevPos(b).x + R <= k.x,
   right  |-> PrevPos(b).x - R >= k.x + k.width,
   top    |-> PrevPos(b).y + R <= k.y,
   bottom |-> PrevPos(b).y - R >= k.y + k.height]

NoSide(f) == ~f.left /\ ~f.right /\ ~f.top /\ ~f.bottom

\* C24: the reflection off a brick negates dx iff the ball came from the left
\* or from the right, and dy iff it came from the top or the bottom or from no
\* side at all; each component is negated at most once and at least one is.
\* Stated for the ball ball.update leaves and every brick of the set, and for
\* the ball that the resolved impact of that tick leaves.
C24_ReflectionBySide ==
  running =>
    LET a == AfterBallUpdate
        b == a.ball
        Rule(o, k) ==
          LET f == SideFlags(b, k)
          IN  /\ o.dx = IF f.left \/ f.right THEN -b.dx ELSE b.dx
              /\ o.dy = IF f.top \/ f.bottom \/ NoSide(f) THEN -b.dy ELSE b.dy
              /\ (f.left \/ f.right) \/ (f.top \/ f.bottom \/ NoSide(f))
    IN  /\ \A r \in 1..Len(a.bricks) : \A c \in 1..Len(a.bricks[r]) :
             Rule(Reflect(b, a.bricks[r][c]), a.bricks[r][c])
        /\ Candidates(a) # {} =>
             LET h == RowMajorFirst(Candidates(a))
             IN  Rule(Struck(a).ball, a.bricks[h[1]][h[2]])

\* a corner hit has just been resolved: the ball came from below and from the
\* left of a brick, sits outside both edges, and both components were negated
C24_Witness ==
  /\ ev.op = "tick" /\ ev.cleared = 1 /\ running
  /\ ball.dx < 0 /\ ball.dy > 0
  /\ \E r \in 1..Len(bricks) : \E c \in 1..Len(bricks[r]) :
       /\ bricks[r][c].status = 0
       /\ ball.x = bricks[r][c].x - R - Eps
       /\ ball.y = bricks[r][c].y + bricks[r][c].height + R + Eps

\* C25: a resolved brick impact with at least one side inferred leaves the ball
\* clear of the struck brick: its bounding square no longer intersects the
\* brick's bounds, and on each reflected axis its centre is radius + 0.1 outside
\* the edge it struck, the other coordinate being kept.
C25_BallClearOfStruckBrick ==
  running =>
    LET a == AfterBallUpdate
    IN  Candidates(a) # {} =>
          LET h == RowMajorFirst(Candidates(a))
              k == a.bricks[h[1]][h[2]]
              f == SideFlags(a.ball, k)
              o == Struck(a).ball
          IN  ~NoSide(f) =>
                /\ ~Intersects(o, k)
                /\ o.x = IF f.left THEN k.x - R - 1
                         ELSE IF f.right THEN k.x + k.width + R + 1
                         ELSE a.ball.x
                /\ o.y = IF f.top THEN k.y - R - 1
                         ELSE IF f.bottom THEN k.y + k.height + R + 1
                         ELSE a.ball.y

\* a ball that came down onto the upper right corner of a brick has just been
\* put outside its top and right edges
C25_Witness ==
  /\ ev.op = "tick" /\ ev.cleared = 1 /\ running
  /\ ball.dx > 0 /\ ball.dy < 0
  /\ \E r \in 1..Len(bricks) : \E c \in 1..Len(bricks[r]) :
       /\ bricks[r][c].status = 0
       /\ ball.x = bricks[r][c].x + bricks[r][c].width + R + Eps
       /\ ball.y = bricks[r][c].y - R - Eps
       /\ ~Intersects(ball, bricks[r][c])

\* C26: in the state a running tick leaves, the one the renderer draws, the
\* ball is inside the side walls and below the top wall.
C26_BallInsideAfterTick ==
  (ev.op = "tick" /\ ev.from = "running") =>
    /\ R <= ball.x
    /\ ball.x <= canvasWidth - R
    /\ ball.y >= R

\* C27: a bottom-out with more than one life left takes exactly one life, stops
\* the round and docks the ball with zero velocity, sets neither terminal flag
\* and leaves score, level, brick statuses and remainingBricks alone; after it
\* only a serve (Space or a canvas click) sets the ball in motion again.
C27_BottomOutWithLivesLeft ==
  [][/\ \/ ~running
        \/ lives <= 1
        \/ ~BottomsOut
        \/ /\ lives' = lives - 1
           /\ ~running'
           /\ Docked(ball', paddle')
           /\ ~gameOver' /\ ~youWin'
           /\ score' = score
           /\ currentLevel' = currentLevel
           /\ Statuses(bricks') = Statuses(bricks)
           /\ remainingBricks' = remainingBricks
        \/ ~Tick
     /\ (~running /\ running') => (KeySpace \/ CanvasClick)]_vars

\* C28: a tick in which the ball bottoms out clears no brick: brick statuses,
\* score and remainingBricks end as they started.
C28_NoBrickClearedOnBottomOut ==
  [][\/ ~running
     \/ ~BottomsOut
     \/ /\ ev'.cleared = 0
        /\ score' = score
        /\ remainingBricks' = remainingBricks
        /\ (currentLevel' = currentLevel => Statuses(bricks') = Statuses(bricks))
     \/ ~Tick]_vars

\* normalizeAndFitBricks applied to s changes nothing but the bricks' geometry,
\* canvas.width and paddle.x
LayoutOnly(s) ==
  LET n == normalizeAndFitBricks(s)
  IN  /\ Statuses(n.bricks) = Statuses(s.bricks)
      /\ [n EXCEPT !.bricks = s.bricks, !.canvasWidth = s.canvasWidth,
                   !.paddle.x = s.paddle.x] = s
      /\ \A r \in 1..Len(s.bricks) : \A c \in 1..Len(s.bricks[r]) :
           [n.bricks[r][c] EXCEPT !.x = 0, !.y = 0, !.width = 0, !.height = 0]
             = [s.bricks[r][c] EXCEPT !.x = 0, !.y = 0, !.width = 0, !.height = 0]

\* C29: normalizeAndFitBricks is a layout-only pass: no brick's status changes,
\* and remainingBricks, score, lives, currentLevel and everything else but the
\* bricks' x, y, width, height, canvas.width and paddle.x stay as they were.
\* Stated for the brick set in play and for each level's set as generated.
C29_NormalizeIsLayoutOnly ==
  /\ LayoutOnly(State)
  /\ \A idx \in 0..(NumLevels - 1) :
       LayoutOnly([State EXCEPT !.bricks = UnitLevelBricks(idx, canvasWidth)])

\* setLevel has just laid out the hollow rectangle on a canvas it had to widen
C29_Witness ==
  /\ ev.op = "tick" /\ ev.cleared = 1 /\ ~running
  /\ currentLevel = NumLevels - 1
  /\ canvasWidth > canvas.width
  /\ bricks[1][1].width # Px(brick.width)
  /\ remainingBricks = BrickTotal(bricks)

\* C30: whenever control is back with the browser at most one callback of loop
\* is queued, and one is queued exactly when neither gameOver nor youWin is
\* set (animId holds a request id exactly then); a tick that sets a terminal
\* flag queues none, and resetGame leaves exactly one queued, from a terminal
\* state as well, so ticks run again.
C30_OneLoopPending ==
  /\ pending <= 1
  /\ (pending = 1) <=> ~(gameOver \/ youWin)
  /\ animId <=> (pending = 1)
  /\ [][/\ (ev'.op = "tick" /\ (gameOver' \/ youWin')) => pending' = 0
        /\ ev'.op = "reset" => (pending' = 1 /\ ~gameOver' /\ ~youWin')]_vars

\* the start button has just been clicked after a game over: one callback is
\* queued again
C30_Witness ==
  ev.op = "reset" /\ ev.from = "gameover" /\ pending = 1 /\ animId /\ ~gameOver

\* C31: a tick that advances the level leaves lives as they were (they are not
\* restored), keeps the score with the 10 points of the brick that cleared the
\* level, leaves highScore as that brick's strike left it, and sets neither
\* gameOver nor youWin.
C31_LevelAdvanceKeepsTotals ==
  [][\/ ev'.op # "tick"
     \/ currentLevel' # currentLevel + 1
     \/ LET s == Struck(AfterBallUpdate)
        IN  /\ lives' = lives
            /\ score' = score + 10 /\ score' = s.score
            /\ highScore' = s.highScore
            /\ highScore' = Max(highScore, score + 10)
            /\ ~gameOver' /\ ~youWin'
     \/ ~Tick]_vars

\* level 1 has just been entered by a session that had lost a life on level 0
\* and whose first brick set a new high score
C31_Witness ==
  /\ ev.op = "tick" /\ ev.cleared = 1 /\ ~running
  /\ currentLevel = 1 /\ AllAlive(bricks)
  /\ lives = StartLives - 1 /\ score = 10 /\ highScore = 10
  /\ ~gameOver /\ ~youWin

\* C32: currentLevel is always one of 0 .. levels.length - 1; it changes only
\* by exactly +1, in a tick that clears the last brick of a level below the
\* last one, or to 0 in resetGame; it never skips a level or wraps around.
C32_LevelStepsByOne ==
  /\ currentLevel \in 0..(NumLevels - 1)
  /\ [][\/ currentLevel' = currentLevel
        \/ /\ currentLevel' = currentLevel + 1
           /\ currentLevel < NumLevels - 1
           /\ ev'.op = "tick" /\ ev'.cleared = 1
           /\ remainingBricks = 1
        \/ /\ currentLevel' = 0
           /\ ev'.op = "reset"]_vars

\* the last brick of the last level has just been cleared: the level stays
C32_Witness ==
  /\ ev.op = "tick" /\ ev.cleared = 1
  /\ youWin /\ remainingBricks = 0
  /\ currentLevel = NumLevels - 1

====
